---- MODULE Spec2Model ----
(***************************************************************************)
(* Model of the LazorKit starter: the integration selector (App.tsx) and   *)
(* the two wallet dashboards, AppDirect.tsx (direct integration) and       *)
(* AppWalletStandard.tsx (wallet-standard integration).                    *)
(*                                                                         *)
(* Numbers.  A JavaScript number holding a SOL quantity is modelled as a   *)
(* fixed-point integer counting 0.0001 SOL (the step of the amount input   *)
(* and the precision of toFixed(4)); NaN is a separate value.  Lamport     *)
(* quantities are integers.  The model's balances and amounts lie on that  *)
(* grid, so the binary rounding of IEEE doubles is not represented.        *)
(*                                                                         *)
(* Strings are TLA+ strings: messages, addresses and the text of the form  *)
(* fields are the source's own, and trim, parseFloat, toFixed and          *)
(* String.includes are computed character by character.                    *)
(*                                                                         *)
(* A value of type T | null is a sequence: <<>> is null, <<v>> is v.       *)
(***************************************************************************)
EXTENDS Integers, Sequences, FiniteSets, TLC

VARIABLES
    mode,           \* App: 'select' | 'direct' | 'wallet-standard'
    connState,      \* provider: "disconnected" | "connecting" | "connected"
    account,        \* provider: smartWalletPubkey / publicKey (null when absent)
    chainBal,       \* devnet: lamports held by each account
    balance,        \* dashboard state: number | null
    showSendModal,  \* dashboard state
    recipient,      \* dashboard state
    amount,         \* dashboard state
    txHash,         \* dashboard state: string | null
    txError,        \* dashboard state
    sending,        \* dashboard state
    interval,       \* the account captured by the setInterval callback, or null
    queries,        \* connection.getBalance calls awaiting their response
    calls           \* signAndSendTransaction / sendTransaction calls awaiting settlement

vars == <<mode, connState, account, chainBal, balance, showSendModal, recipient,
          amount, txHash, txError, sending, interval, queries, calls>>

dashboardState == <<balance, showSendModal, recipient, amount, txHash, txError, sending>>

-----------------------------------------------------------------------------
(* Bounds of the model. *)

\* the amounts the user types range up to MaxAmountSteps steps of 0.0005 SOL
MaxAmountSteps == 3

\* polling and user-initiated balance queries in flight at once (the query
\* issued after a successful transfer comes on top)
MaxQueries == 1

-----------------------------------------------------------------------------
(* Numbers *)

LAMPORTS_PER_SOL == 1000000000

\* digits kept after the decimal point: toFixed(4), step="0.0001"
FractionDigits == 4

RECURSIVE Pow10(_)
Pow10(n) == IF n = 0 THEN 1 ELSE 10 * Pow10(n - 1)

\* fixed-point one: the representation of the number 1.0
One == Pow10(FractionDigits)

\* the grid of the model's balances and amounts: 0.0005 SOL
Step == One \div 2000

NaN == [nan |-> TRUE, v |-> 0]
Num(n) == [nan |-> FALSE, v |-> n]

isNaN(x) == x.nan
\* IEEE comparisons: every comparison with NaN is false
Gt(x, y) == ~x.nan /\ ~y.nan /\ x.v > y.v
Le(x, y) == ~x.nan /\ ~y.nan /\ x.v <= y.v

\* Math.max(0, x) and x - y on numbers that are not NaN
MathMax0(x) == IF x.v > 0 THEN x ELSE Num(0)
Minus(x, y) == Num(x.v - y.v)

\* balanceLamports / LAMPORTS_PER_SOL
LamportsToSol(lamports) == Num(lamports \div (LAMPORTS_PER_SOL \div One))
\* amountNum * LAMPORTS_PER_SOL
SolToLamports(x) == x.v * (LAMPORTS_PER_SOL \div One)

-----------------------------------------------------------------------------
(* amountNum * LAMPORTS_PER_SOL in IEEE-754 double precision.  A number of   *)
(* the model stands for the double nearest to its decimal value; the        *)
(* product is rounded to 53 significant bits as the hardware rounds it.     *)
(* Naturals beyond 31 bits are sequences of limbs, least significant first. *)

LimbBits == 15
LimbBase == 32768
MantissaBits == 53

RECURSIVE Pow2(_)
Pow2(n) == IF n = 0 THEN 1 ELSE 2 * Pow2(n - 1)

\* a without its leading (most significant) zero limbs
RECURSIVE BigNormal(_)
BigNormal(a) ==
    IF Len(a) > 0 /\ a[Len(a)] = 0 THEN BigNormal(SubSeq(a, 1, Len(a) - 1)) ELSE a

\* a * c + carry, for 0 <= c < LimbBase
RECURSIVE BigMulCarry(_, _, _)
BigMulCarry(a, c, carry) ==
    IF Len(a) = 0
    THEN IF carry = 0 THEN <<>>
         ELSE <<carry % LimbBase>> \o BigMulCarry(a, c, carry \div LimbBase)
    ELSE LET t == a[1] * c + carry
         IN  <<t % LimbBase>> \o BigMulCarry(Tail(a), c, t \div LimbBase)

BigMul(a, c) == BigNormal(BigMulCarry(a, c, 0))

\* quotient and remainder of a by d, for 0 < d < LimbBase
RECURSIVE BigDivMod(_, _)
BigDivMod(a, d) ==
    IF Len(a) = 0 THEN [q |-> <<>>, r |-> 0]
    ELSE LET high == BigDivMod(Tail(a), d)
             cur  == high.r * LimbBase + a[1]
         IN  [q |-> <<cur \div d>> \o high.q, r |-> cur % d]

\* -1, 0, 1 as a < b, a = b, a > b (both without leading zero limbs)
RECURSIVE BigCmp(_, _)
BigCmp(a, b) ==
    IF Len(a) # Len(b) THEN (IF Len(a) < Len(b) THEN 0 - 1 ELSE 1)
    ELSE IF Len(a) = 0 THEN 0
    ELSE IF a[Len(a)] # b[Len(b)] THEN (IF a[Len(a)] < b[Len(b)] THEN 0 - 1 ELSE 1)
    ELSE BigCmp(SubSeq(a, 1, Len(a) - 1), SubSeq(b, 1, Len(b) - 1))

\* a - b - borrow, for a >= b + borrow
RECURSIVE BigSubBorrow(_, _, _)
BigSubBorrow(a, b, borrow) ==
    IF Len(a) = 0 THEN <<>>
    ELSE LET t == a[1] - (IF Len(b) = 0 THEN 0 ELSE b[1]) - borrow
         IN  <<IF t < 0 THEN t + LimbBase ELSE t>>
             \o BigSubBorrow(Tail(a), IF Len(b) = 0 THEN b ELSE Tail(b),
                             IF t < 0 THEN 1 ELSE 0)

\* |a - b|
BigDistance(a, b) ==
    IF BigCmp(a, b) >= 0 THEN BigNormal(BigSubBorrow(a, b, 0))
    ELSE BigNormal(BigSubBorrow(b, a, 0))

\* 2^n
BigPow2(n) ==
    [i \in 1..(n \div LimbBits + 1) |->
        IF i = n \div LimbBits + 1 THEN Pow2(n % LimbBits) ELSE 0]

\* the number of bits of a > 0
RECURSIVE BitLength(_)
BitLength(n) == IF n = 0 THEN 0 ELSE 1 + BitLength(n \div 2)
BigBitLength(a) == LimbBits * (Len(a) - 1) + BitLength(a[Len(a)])

\* the exponent of the double nearest to v / One, v > 0: the least k with
\* v * 2^k / One >= 2^52
RECURSIVE DoubleScale(_, _)
DoubleScale(v, k) ==
    IF BigCmp(BigMul(BigPow2(k), v), BigMul(BigPow2(MantissaBits - 1), One)) >= 0
    THEN k
    ELSE DoubleScale(v, k + 1)

\* the mantissa m of that double, m * 2^-k being its value: v * 2^k / One
\* rounded to the nearest integer, ties to even
DoubleMantissa(v, k) ==
    LET d    == BigDivMod(BigMul(BigPow2(k), v), One)
        q    == BigNormal(d.q)
        up   == 2 * d.r > One \/ (2 * d.r = One /\ q[1] % 2 = 1)
    IN  IF up THEN BigNormal(BigMulCarry(q, 1, 1)) ELSE q

\* a * LAMPORTS_PER_SOL
BigMulLamports(a) ==
    BigMul(BigMul(BigMul(a, 10000), 10000), LAMPORTS_PER_SOL \div 100000000)

\* the double amountNum * LAMPORTS_PER_SOL against the integer that is the
\* decimal amount times 10^9: 0 when the product is that integer, otherwise
\* the sign of the difference (the product then has a fractional part).
\* For amounts below 3.2768 SOL.
LamportsDrift(x) ==
    IF x.nan \/ x.v <= 0 THEN 0
    ELSE LET k       == DoubleScale(x.v, 0)
             m       == DoubleMantissa(x.v, k)
             \* the exact product and the integer, both in units of 2^-k
             product == BigMulLamports(m)
             target  == BigNormal(BigDivMod(BigMulLamports(BigMul(BigPow2(k), x.v)), One).q)
             \* the spacing of doubles around the product, in the same units
             s       == BigBitLength(product) - MantissaBits
             twice   == BigMul(BigDistance(product, target), 2)
             near    == BigCmp(twice, BigPow2(s))
         IN  IF k >= s /\ (near < 0 \/ (near = 0 /\ k > s)) THEN 0
             ELSE IF BigCmp(product, target) > 0 THEN 1 ELSE 0 - 1

-----------------------------------------------------------------------------
(* Strings *)

CharAt(s, i) == SubSeq(s, i, i)
Digits == {"0", "1", "2", "3", "4", "5", "6", "7", "8", "9"}
DigitValue(c) ==
    CASE c = "0" -> 0 [] c = "1" -> 1 [] c = "2" -> 2 [] c = "3" -> 3 [] c = "4" -> 4
      [] c = "5" -> 5 [] c = "6" -> 6 [] c = "7" -> 7 [] c = "8" -> 8 [] c = "9" -> 9
WhiteSpace == {" ", "\t", "\n"}

\* String.prototype.includes
includes(s, p) ==
    \E i \in 1..(Len(s) - Len(p) + 1) : SubSeq(s, i, i + Len(p) - 1) = p

\* String.prototype.trim
RECURSIVE trimStart(_)
trimStart(s) ==
    IF Len(s) > 0 /\ CharAt(s, 1) \in WhiteSpace
    THEN trimStart(SubSeq(s, 2, Len(s)))
    ELSE s
RECURSIVE trimEnd(_)
trimEnd(s) ==
    IF Len(s) > 0 /\ CharAt(s, Len(s)) \in WhiteSpace
    THEN trimEnd(SubSeq(s, 1, Len(s) - 1))
    ELSE s
trim(s) == trimEnd(trimStart(s))

\* the number of leading decimal digits of s
RECURSIVE DigitRun(_)
DigitRun(s) ==
    IF Len(s) > 0 /\ CharAt(s, 1) \in Digits
    THEN 1 + DigitRun(SubSeq(s, 2, Len(s)))
    ELSE 0

\* the value of a string of decimal digits
RECURSIVE DigitsValue(_)
DigitsValue(s) ==
    IF Len(s) = 0 THEN 0
    ELSE 10 * DigitsValue(SubSeq(s, 1, Len(s) - 1)) + DigitValue(CharAt(s, Len(s)))

\* the first FractionDigits digits of a fraction, as a count of 0.0001
FractionValue(s) ==
    LET kept == SubSeq(s, 1, IF Len(s) < FractionDigits THEN Len(s) ELSE FractionDigits)
    IN  DigitsValue(kept) * Pow10(FractionDigits - Len(kept))

\* parseFloat: leading white space is skipped, then the longest prefix that is
\* a decimal literal (sign, digits, fraction) is converted and whatever follows
\* it is ignored; NaN when there is no such prefix.  Exponents and "Infinity"
\* are not among the model's inputs and are not recognised here.
parseFloat(str) ==
    LET s      == trimStart(str)
        signed == Len(s) > 0 /\ CharAt(s, 1) \in {"-", "+"}
        neg    == signed /\ CharAt(s, 1) = "-"
        body   == IF signed THEN SubSeq(s, 2, Len(s)) ELSE s
        ni     == DigitRun(body)
        rest   == SubSeq(body, ni + 1, Len(body))
        dot    == Len(rest) > 0 /\ CharAt(rest, 1) = "."
        nf     == IF dot THEN DigitRun(SubSeq(rest, 2, Len(rest))) ELSE 0
        mag    == DigitsValue(SubSeq(body, 1, ni)) * One
                  + FractionValue(SubSeq(rest, 2, nf + 1))
    IN  IF ni + nf = 0 THEN NaN ELSE Num(IF neg THEN 0 - mag ELSE mag)

RECURSIVE PadZeros(_, _)
PadZeros(s, width) == IF Len(s) >= width THEN s ELSE PadZeros("0" \o s, width)

\* Number.prototype.toFixed(4)
toFixed(x) ==
    LET mag == IF x.v < 0 THEN 0 - x.v ELSE x.v
    IN  (IF x.v < 0 THEN "-" ELSE "")
        \o ToString(mag \div One) \o "."
        \o PadZeros(ToString(mag % One), FractionDigits)

\* String(x) of a number: the shortest decimal, without trailing zeros
RECURSIVE StripZeros(_)
StripZeros(s) ==
    IF CharAt(s, Len(s)) = "0" THEN StripZeros(SubSeq(s, 1, Len(s) - 1))
    ELSE IF CharAt(s, Len(s)) = "." THEN SubSeq(s, 1, Len(s) - 1)
    ELSE s
NumberToString(x) == StripZeros(toFixed(x))

-----------------------------------------------------------------------------
(* new PublicKey(value): the string must be the base-58 text of 32 bytes.  *)
(* Modelled by its alphabet and its length (32 bytes are 32 to 44 base-58  *)
(* characters); anything else throws.                                      *)

Base58Alphabet ==
    {"1", "2", "3", "4", "5", "6", "7", "8", "9",
     "A", "B", "C", "D", "E", "F", "G", "H", "J", "K", "L", "M", "N", "P", "Q",
     "R", "S", "T", "U", "V", "W", "X", "Y", "Z",
     "a", "b", "c", "d", "e", "f", "g", "h", "i", "j", "k", "m", "n", "o", "p",
     "q", "r", "s", "t", "u", "v", "w", "x", "y", "z"}

PublicKeyParses(value) ==
    /\ Len(value) >= 32
    /\ Len(value) <= 44
    /\ \A i \in 1..Len(value) : CharAt(value, i) \in Base58Alphabet

\* a thrown value: an Error with its message, or something that is no Error
Error(message) == [isError |-> TRUE, message |-> message]
NonError == [isError |-> FALSE, message |-> ""]

InvalidPublicKeyInput == Error("Invalid public key input")

-----------------------------------------------------------------------------
(* handleSendTransaction, from the try to the provider call: the value     *)
(* thrown before the provider is reached, <<>> when nothing is thrown.     *)
(* balance is number | null.                                               *)

RENT_RESERVE == Num(One \div 1000)

\* Math.max(0, (balance || 0) - RENT_RESERVE)
maxSendable(bal) ==
    MathMax0(Minus(IF bal = <<>> THEN Num(0) ELSE bal[1], RENT_RESERVE))

AmountTooHigh(bal) ==
    Error("Amount too high. Keep at least " \o NumberToString(RENT_RESERVE)
          \o " SOL for rent. Max sendable: " \o toFixed(maxSendable(bal)) \o " SOL")

\* ValidateTransfer without its last check, the reserve
ValidateTransfer_NoReserve(rcpt, amt, bal) ==
    LET amountNum == parseFloat(amt)
    IN  IF ~PublicKeyParses(trim(rcpt)) THEN <<InvalidPublicKeyInput>>
        ELSE IF isNaN(amountNum) \/ Le(amountNum, Num(0)) THEN <<Error("Invalid amount")>>
        ELSE IF bal # <<>> /\ Gt(amountNum, bal[1]) THEN <<Error("Insufficient balance")>>
        ELSE <<>>

\* ValidateTransfer with the amount parsed and checked before the recipient
ValidateTransfer_AmountFirst(rcpt, amt, bal) ==
    LET amountNum == parseFloat(amt)
    IN  IF isNaN(amountNum) \/ Le(amountNum, Num(0)) THEN <<Error("Invalid amount")>>
        ELSE IF ~PublicKeyParses(trim(rcpt)) THEN <<InvalidPublicKeyInput>>
        ELSE IF bal # <<>> /\ Gt(amountNum, bal[1]) THEN <<Error("Insufficient balance")>>
        ELSE IF bal # <<>> /\ Gt(amountNum, maxSendable(bal)) THEN <<AmountTooHigh(bal)>>
        ELSE <<>>

\* ValidateTransfer with the reserve check before the balance check
ValidateTransfer_ReserveFirst(rcpt, amt, bal) ==
    LET amountNum == parseFloat(amt)
    IN  IF ~PublicKeyParses(trim(rcpt)) THEN <<InvalidPublicKeyInput>>
        ELSE IF isNaN(amountNum) \/ Le(amountNum, Num(0)) THEN <<Error("Invalid amount")>>
        ELSE IF bal # <<>> /\ Gt(amountNum, maxSendable(bal)) THEN <<AmountTooHigh(bal)>>
        ELSE IF bal # <<>> /\ Gt(amountNum, bal[1]) THEN <<Error("Insufficient balance")>>
        ELSE <<>>

\* lines shared by both files: recipient, amount, balance and reserve checks
ValidateTransfer(rcpt, amt, bal) ==
    LET amountNum == parseFloat(amt)
    IN  IF ~PublicKeyParses(trim(rcpt)) THEN <<InvalidPublicKeyInput>>
        ELSE IF isNaN(amountNum) \/ Le(amountNum, Num(0)) THEN <<Error("Invalid amount")>>
        ELSE IF bal # <<>> /\ Gt(amountNum, bal[1]) THEN <<Error("Insufficient balance")>>
        ELSE IF bal # <<>> /\ Gt(amountNum, maxSendable(bal)) THEN <<AmountTooHigh(bal)>>
        ELSE <<>>

\* AppDirect.tsx: smartWalletPubkey, isConnected, wallet
AppDirect_thrown(smartWalletPubkey, isConnected, wallet, rcpt, amt, bal) ==
    IF smartWalletPubkey = <<>> THEN <<Error("Wallet not connected")>>
    ELSE IF ~isConnected \/ wallet = <<>> THEN <<Error("Please reconnect your wallet")>>
    ELSE ValidateTransfer(rcpt, amt, bal)

\* AppWalletStandard_thrown with the connection test after the transfer rules
AppWalletStandard_thrown_ValidatesFirst(publicKey, connected, rcpt, amt, bal) ==
    IF ValidateTransfer(rcpt, amt, bal) # <<>> THEN ValidateTransfer(rcpt, amt, bal)
    ELSE IF publicKey = <<>> \/ ~connected THEN <<Error("Wallet not connected")>>
    ELSE <<>>

\* AppWalletStandard.tsx: publicKey, connected
AppWalletStandard_thrown(publicKey, connected, rcpt, amt, bal) ==
    IF publicKey = <<>> \/ ~connected THEN <<Error("Wallet not connected")>>
    ELSE ValidateTransfer(rcpt, amt, bal)

-----------------------------------------------------------------------------
(* handleSendTransaction, the catch block: the text stored by setTxError.  *)

SigningFailedText == "Signing failed. Please ensure you authenticate with your passkey."
CancelledText == "Transaction was cancelled."
TooLargeDirectText == "Transaction too large. The transaction has been optimized with V0 format. If this persists, please try a smaller amount or contact support."
TooLargeStandardText == "Transaction too large. If this persists, please try a smaller amount or contact support."
NotFundedText == "Account not funded. Please add SOL to your wallet using the faucet."
SimulationFailedText == "Transaction simulation failed. This may be due to insufficient funds or network issues. Please check your balance and try again."
GenericText == "Transaction failed"

\* `Insufficient funds. Your balance: ${balance?.toFixed(4) || '0'} SOL. ...`
InsufficientFundsText(bal) ==
    "Insufficient funds. Your balance: " \o (IF bal = <<>> THEN "0" ELSE toFixed(bal[1]))
    \o " SOL. You need to keep at least 0.001 SOL for rent. Try a smaller amount or fund your wallet using the faucet."

\* NetworkErrorText with the generic text for a message no branch recognises
NetworkErrorText_Generic(message, bal, tooLargeText) ==
    IF includes(message, "Transaction too large") \/ includes(message, "too large")
        THEN tooLargeText
    ELSE IF includes(message, "custom program error: 0x1")
            \/ includes(message, "custom program error: 0x2")
        THEN InsufficientFundsText(bal)
    ELSE IF includes(message, "Attempt to debit an account but found no record of a prior credit")
        THEN NotFundedText
    ELSE IF includes(message, "Transaction simulation failed")
        THEN SimulationFailedText
    ELSE GenericText

\* NetworkErrorText with the simulation-failed test ahead of the others
NetworkErrorText_SimulationFirst(message, bal, tooLargeText) ==
    IF includes(message, "Transaction simulation failed")
        THEN SimulationFailedText
    ELSE IF includes(message, "Transaction too large") \/ includes(message, "too large")
        THEN tooLargeText
    ELSE IF includes(message, "custom program error: 0x1")
            \/ includes(message, "custom program error: 0x2")
        THEN InsufficientFundsText(bal)
    ELSE IF includes(message, "Attempt to debit an account but found no record of a prior credit")
        THEN NotFundedText
    ELSE message

\* the branches after the first two, the same in both files but for one text
NetworkErrorText(message, bal, tooLargeText) ==
    IF includes(message, "Transaction too large") \/ includes(message, "too large")
        THEN tooLargeText
    ELSE IF includes(message, "custom program error: 0x1")
            \/ includes(message, "custom program error: 0x2")
        THEN InsufficientFundsText(bal)
    ELSE IF includes(message, "Attempt to debit an account but found no record of a prior credit")
        THEN NotFundedText
    ELSE IF includes(message, "Transaction simulation failed")
        THEN SimulationFailedText
    ELSE message

AppDirect_errorMessage(err, bal) ==
    IF ~err.isError THEN GenericText
    ELSE IF includes(err.message, "Signing failed") THEN SigningFailedText
    ELSE IF includes(err.message, "User rejected") THEN CancelledText
    ELSE NetworkErrorText(err.message, bal, TooLargeDirectText)

AppWalletStandard_errorMessage(err, bal) ==
    IF ~err.isError THEN GenericText
    ELSE IF includes(err.message, "User rejected") THEN CancelledText
    ELSE IF includes(err.message, "Signing failed") THEN SigningFailedText
    ELSE NetworkErrorText(err.message, bal, TooLargeStandardText)

-----------------------------------------------------------------------------
(* The inputs of the model. *)

\* the wallets that can connect, and an address outside them to send to
Accounts == {"4Nd1mBQtrMJVYVfKf2PJy9NZUZdTAsp7D4xWLs4gDB4T",
             "9xQeWvG816bUx9EPjHmaT23yvVM2ZWbrrpZb9PusVFin"}
RecipientAddress == "Fg6PaFpoGXkYsidMpWTK6W2BeZ7FEfcYkg476zPFsLnS"

\* what the user can have typed in the recipient field
RecipientInputs == {"", " " \o RecipientAddress \o " ", "not-an-address"}

\* what the user can have typed in the amount field (type="number": a decimal or nothing)
AmountInputs ==
    {""} \cup {"-" \o toFixed(Num(Step))}
         \cup {toFixed(Num(k * Step)) : k \in 0..MaxAmountSteps}

\* the lamports the accounts hold when the application starts: the first
\* wallet holds the rent reserve and one step more, the second was never
\* funded.  Only the application's own transfers change them.
FundedAccount == "4Nd1mBQtrMJVYVfKf2PJy9NZUZdTAsp7D4xWLs4gDB4T"
InitialLamports ==
    [a \in Accounts |->
        IF a = FundedAccount THEN SolToLamports(Num(One \div 1000 + Step)) ELSE 0]

\* the transaction ids the provider can hand back
Signatures == {"5x7yQmZ3"}

\* the values the provider's sign-and-submit operation can reject with: Errors
\* carrying a message, and a value that is not an Error.  An Error whose message
\* is the empty string is not among them: the catch block would store that
\* empty message as txError.
ProviderErrors ==
    { Error("User rejected the request"),
      Error("Signing failed"),
      Error("Signing failed: User rejected the request"),
      Error("Transaction too large: 1644 > 1232"),
      Error("Transaction simulation failed: Error processing Instruction 0: custom program error: 0x1"),
      Error("Transaction simulation failed: Attempt to debit an account but found no record of a prior credit."),
      Error("Transaction simulation failed: Blockhash not found"),
      Error("failed to fetch"),
      NonError }

-----------------------------------------------------------------------------
(* The state after construction: the landing page, nothing mounted. *)

Init ==
    /\ mode = "select"
    /\ connState = "disconnected"
    /\ account = <<>>
    /\ chainBal = InitialLamports
    /\ balance = <<>>
    /\ showSendModal = FALSE
    /\ recipient = ""
    /\ amount = ""
    /\ txHash = <<>>
    /\ txError = ""
    /\ sending = FALSE
    /\ interval = <<>>
    /\ queries = {}
    /\ calls = <<>>

\* the useState initial values of a WalletDashboard that mounts
FreshDashboard ==
    /\ balance' = <<>>
    /\ showSendModal' = FALSE
    /\ recipient' = ""
    /\ amount' = ""
    /\ txHash' = <<>>
    /\ txError' = ""
    /\ sending' = FALSE

\* whether WalletDashboard's state is discarded when the wallet disconnects:
\* AppContent renders WelcomeScreen in its place; AppWalletStandard keeps it mounted
UnmountsOnDisconnect(m) == m = "direct"

\* the dashboard view (header, balance card, modal) is what is on screen
DashboardShown == mode # "select" /\ connState = "connected"

\* a JavaScript truthy test of txHash: string | null
Truthy(h) == h # <<>> /\ h[1] # ""

\* the <form> of the send modal is rendered
FormShown == DashboardShown /\ showSendModal /\ ~Truthy(txHash)

\* The dashboard unmounts while provider calls are in flight: nothing cancels
\* them, and their settlement sets no state of any component.  All that
\* remains of such a call is whether its transfer went through, which is
\* decided here.
AbandonCalls ==
    /\ calls' = <<>>
    /\ \/ UNCHANGED chainBal
       \/ \E i \in DOMAIN calls :
             /\ chainBal[calls[i].from] >= calls[i].lamports
             /\ chainBal' = [chainBal EXCEPT ![calls[i].from] = @ - calls[i].lamports]

\* connection.getBalance(acct) in flight, answered with the lamports the account
\* held when it was issued; post marks the call awaited by handleSendTransaction
BalanceQuery(acct, lamports, post) == [acct |-> acct, lamports |-> lamports, post |-> post]

-----------------------------------------------------------------------------
(* App.tsx *)

\* the landing page's two buttons
SelectMode(m) ==
    /\ mode = "select"
    /\ mode' = m
    /\ UNCHANGED <<connState, account, chainBal, dashboardState, interval, queries, calls>>

\* GoHome with the button on every screen of an implementation
GoHome_FromAnyScreen ==
    /\ mode # "select"
    /\ mode' = "select"
    /\ connState' = "disconnected"
    /\ account' = <<>>
    /\ FreshDashboard
    /\ interval' = <<>>
    /\ queries' = {}
    /\ AbandonCalls

\* onGoHome, the dashboard's header button: the implementation and its
\* provider unmount, the effect's cleanup clears the interval
GoHome ==
    /\ DashboardShown
    /\ mode' = "select"
    /\ connState' = "disconnected"
    /\ account' = <<>>
    /\ FreshDashboard
    /\ interval' = <<>>
    /\ queries' = {}
    /\ AbandonCalls

-----------------------------------------------------------------------------
(* The wallet provider: useWallet() of either integration. *)

\* connect() of ConnectButton: AppDirect reads isConnecting and AppContent
\* renders the spinner meanwhile
Connect ==
    /\ mode = "direct"
    /\ connState = "disconnected"
    /\ connState' = "connecting"
    /\ UNCHANGED <<mode, account, chainBal, dashboardState, interval, queries, calls>>

\* the provider is about to report a connection: AppDirect after connect(),
\* AppWalletStandard (which reads connected and publicKey only) after the
\* WalletMultiButton's connect
Connecting ==
    \/ mode = "direct" /\ connState = "connecting"
    \/ mode = "wallet-standard" /\ connState = "disconnected"

\* the passkey ceremony succeeds as account a; the dashboard's effect on the
\* account identifier runs: refreshBalance() at once, then setInterval
ConnectResolves(a) ==
    /\ Connecting
    /\ connState' = "connected"
    /\ account' = <<a>>
    /\ interval' = <<a>>
    /\ queries' = queries \cup {BalanceQuery(a, chainBal[a], FALSE)}
    /\ UNCHANGED <<mode, chainBal, dashboardState, calls>>

ConnectRejects ==
    /\ connState = "connecting"
    /\ connState' = "disconnected"
    /\ UNCHANGED <<mode, account, chainBal, dashboardState, interval, queries, calls>>

\* Disconnect with an effect that returns no cleanup: the interval keeps ticking
Disconnect_KeepsInterval ==
    /\ mode # "select"
    /\ connState = "connected"
    /\ connState' = "disconnected"
    /\ account' = <<>>
    /\ IF UnmountsOnDisconnect(mode)
       THEN FreshDashboard /\ queries' = {} /\ AbandonCalls
       ELSE UNCHANGED <<dashboardState, queries, calls, chainBal>>
    /\ UNCHANGED <<mode, interval>>

\* disconnect(): the account identifier becomes absent and the effect's cleanup
\* clears the interval.  In AppDirect the dashboard unmounts with its state;
\* in AppWalletStandard it stays mounted and renders the connect screen.
Disconnect ==
    /\ mode # "select"
    /\ connState = "connected"
    /\ connState' = "disconnected"
    /\ account' = <<>>
    /\ interval' = <<>>
    /\ IF UnmountsOnDisconnect(mode)
       THEN FreshDashboard /\ queries' = {} /\ AbandonCalls
       ELSE UNCHANGED <<dashboardState, queries, calls, chainBal>>
    /\ UNCHANGED mode

-----------------------------------------------------------------------------
(* WalletDashboard: the balance tracker *)

\* the refresh button: refreshBalance of the current render
RefreshClick ==
    /\ DashboardShown
    /\ account # <<>>
    /\ Cardinality(queries) < MaxQueries
    /\ queries' = queries \cup {BalanceQuery(account[1], chainBal[account[1]], FALSE)}
    /\ UNCHANGED <<mode, connState, account, chainBal, dashboardState, interval, calls>>

\* setInterval(refreshBalance, 10000): refreshBalance of the render that set it up
IntervalTick ==
    /\ interval # <<>>
    /\ Cardinality(queries) < MaxQueries
    /\ queries' = queries \cup {BalanceQuery(interval[1], chainBal[interval[1]], FALSE)}
    /\ UNCHANGED <<mode, connState, account, chainBal, dashboardState, interval, calls>>

\* what setBalance stores when getBalance answers q
StoredBalance(q) == <<LamportsToSol(q.lamports)>>

\* getBalance resolves: setBalance(balanceLamports / LAMPORTS_PER_SOL); the
\* handler awaiting it then reaches its finally block
BalanceResolves(q) ==
    /\ q \in queries
    /\ queries' = queries \ {q}
    /\ balance' = StoredBalance(q)
    /\ sending' = IF q.post THEN FALSE ELSE sending
    /\ UNCHANGED <<mode, connState, account, chainBal, showSendModal, recipient,
                   amount, txHash, txError, interval, calls>>

\* BalanceRejects with a catch block that resets the balance: setBalance(null)
BalanceRejects_ResetsBalance(q) ==
    /\ q \in queries
    /\ queries' = queries \ {q}
    /\ balance' = <<>>
    /\ sending' = IF q.post THEN FALSE ELSE sending
    /\ UNCHANGED <<mode, connState, account, chainBal, showSendModal, recipient,
                   amount, txHash, txError, interval, calls>>

\* getBalance rejects: caught and logged by refreshBalance
BalanceRejects(q) ==
    /\ q \in queries
    /\ queries' = queries \ {q}
    /\ sending' = IF q.post THEN FALSE ELSE sending
    /\ UNCHANGED <<mode, connState, account, chainBal, balance, showSendModal, recipient,
                   amount, txHash, txError, interval, calls>>

-----------------------------------------------------------------------------
(* WalletDashboard: the send modal *)

\* SendButtonEnabled without the balance === 0 test
SendButtonEnabled_AllowsZero == account # <<>> /\ balance # <<>>

\* the "Send SOL" button and its disabled condition
SendButtonEnabled == account # <<>> /\ balance # <<>> /\ balance[1] # Num(0)

OpenSendModal ==
    /\ DashboardShown
    /\ SendButtonEnabled
    /\ ~showSendModal
    /\ showSendModal' = TRUE
    /\ UNCHANGED <<mode, connState, account, chainBal, balance, recipient, amount,
                   txHash, txError, sending, interval, queries, calls>>

\* the inputs, disabled={sending}
SetRecipient(v) ==
    /\ FormShown
    /\ ~sending
    /\ recipient' = v
    /\ recipient' # recipient
    /\ UNCHANGED <<mode, connState, account, chainBal, balance, showSendModal, amount,
                   txHash, txError, sending, interval, queries, calls>>

SetAmount(v) ==
    /\ FormShown
    /\ ~sending
    /\ amount' = v
    /\ amount' # amount
    /\ UNCHANGED <<mode, connState, account, chainBal, balance, showSendModal, recipient,
                   txHash, txError, sending, interval, queries, calls>>

\* CancelSend with a Cancel button that is not disabled while sending
CancelSend_WhileSending ==
    /\ FormShown
    /\ showSendModal' = FALSE
    /\ txError' = ""
    /\ recipient' = ""
    /\ amount' = ""
    /\ UNCHANGED <<mode, connState, account, chainBal, balance, txHash, sending,
                   interval, queries, calls>>

\* the form's Cancel button, disabled={sending}
CancelSend ==
    /\ FormShown
    /\ ~sending
    /\ showSendModal' = FALSE
    /\ txError' = ""
    /\ recipient' = ""
    /\ amount' = ""
    /\ UNCHANGED <<mode, connState, account, chainBal, balance, txHash, sending,
                   interval, queries, calls>>

\* the success panel's Close button
CloseSuccess ==
    /\ DashboardShown
    /\ showSendModal
    /\ Truthy(txHash)
    /\ showSendModal' = FALSE
    /\ txHash' = <<>>
    /\ UNCHANGED <<mode, connState, account, chainBal, balance, recipient, amount,
                   txError, sending, interval, queries, calls>>

-----------------------------------------------------------------------------
(* WalletDashboard: handleSendTransaction *)

\* SubmitEnabled with a submit button that is not disabled while sending
SubmitEnabled_IgnoresSending == FormShown /\ recipient # "" /\ amount # ""

\* the form can be submitted: the submit button is disabled={sending} and both
\* inputs are required
SubmitEnabled == FormShown /\ ~sending /\ recipient # "" /\ amount # ""

\* the pass through the try block up to the provider call, in the open
\* implementation; in AppDirect the wallet object is present with the account
Thrown ==
    IF mode = "direct"
    THEN AppDirect_thrown(account, connState = "connected", account,
                          recipient, amount, balance)
    ELSE AppWalletStandard_thrown(account, connState = "connected",
                                  recipient, amount, balance)

\* the catch block of the open implementation
errorMessage(err, bal) ==
    IF mode = "direct"
    THEN AppDirect_errorMessage(err, bal)
    ELSE AppWalletStandard_errorMessage(err, bal)

RemoveAt(seq, i) == SubSeq(seq, 1, i - 1) \o SubSeq(seq, i + 1, Len(seq))

\* the provider call in flight: the transfer instruction, and the balance the
\* handler's closure holds.  The instruction's lamports are the double
\* amountNum * LAMPORTS_PER_SOL: the integer in lamports when drift is 0, a
\* number with a fractional part just above or below it otherwise.
ProviderCall ==
    [from |-> account[1], to |-> trim(recipient),
     lamports |-> SolToLamports(parseFloat(amount)),
     drift |-> LamportsDrift(parseFloat(amount)), bal |-> balance]

\* onSubmit: setTxError(''), setTxHash(null), setSending(true), then either a
\* throw before the provider call (catch, finally) or the provider call
SubmitRejected ==
    /\ SubmitEnabled
    /\ Thrown # <<>>
    /\ txError' = errorMessage(Thrown[1], balance)
    /\ txHash' = <<>>
    /\ sending' = FALSE
    /\ UNCHANGED <<mode, connState, account, chainBal, balance, showSendModal, recipient,
                   amount, interval, queries, calls>>

\* SubmitAccepted without setTxError('') at the top of the handler
SubmitAccepted_KeepsError ==
    /\ SubmitEnabled
    /\ Thrown = <<>>
    /\ txHash' = <<>>
    /\ sending' = TRUE
    /\ calls' = Append(calls, ProviderCall)
    /\ UNCHANGED <<mode, connState, account, chainBal, balance, showSendModal, recipient,
                   amount, txError, interval, queries>>

SubmitAccepted ==
    /\ SubmitEnabled
    /\ Thrown = <<>>
    /\ txError' = ""
    /\ txHash' = <<>>
    /\ sending' = TRUE
    /\ calls' = Append(calls, ProviderCall)
    /\ UNCHANGED <<mode, connState, account, chainBal, balance, showSendModal, recipient,
                   amount, interval, queries>>

\* ProviderResolves without the awaited refreshBalance(): the handler goes
\* straight to its finally block
ProviderResolves_NoRefresh(i, sig) ==
    /\ i \in DOMAIN calls
    /\ chainBal[calls[i].from] >= calls[i].lamports
    /\ chainBal' = [chainBal EXCEPT ![calls[i].from] = @ - calls[i].lamports]
    /\ calls' = RemoveAt(calls, i)
    /\ txHash' = <<sig>>
    /\ recipient' = ""
    /\ amount' = ""
    /\ sending' = FALSE
    /\ UNCHANGED <<mode, connState, account, balance, showSendModal, txError, interval,
                   queries>>

\* the provider call resolves with a signature: the transfer has debited the
\* sender; setTxHash, setRecipient(''), setAmount(''), then refreshBalance()
\* is awaited
ProviderResolves(i, sig) ==
    /\ i \in DOMAIN calls
    /\ chainBal[calls[i].from] >= calls[i].lamports
    /\ chainBal' = [chainBal EXCEPT ![calls[i].from] = @ - calls[i].lamports]
    /\ calls' = RemoveAt(calls, i)
    /\ txHash' = <<sig>>
    /\ recipient' = ""
    /\ amount' = ""
    /\ queries' = queries \cup
          {BalanceQuery(calls[i].from, chainBal'[calls[i].from], TRUE)}
    /\ UNCHANGED <<mode, connState, account, balance, showSendModal, txError, sending,
                   interval>>

\* ProviderRejects with setSending(false) at the end of the try block instead
\* of in a finally block
ProviderRejects_NoFinally(i, err) ==
    /\ i \in DOMAIN calls
    /\ calls' = RemoveAt(calls, i)
    /\ txError' = errorMessage(err, calls[i].bal)
    /\ UNCHANGED <<mode, connState, account, chainBal, balance, showSendModal, recipient,
                   amount, txHash, sending, interval, queries>>

\* ProviderRejects with a handler that calls the provider again after a failure
ProviderRejects_Retries(i, err) ==
    /\ i \in DOMAIN calls
    /\ calls' = Append(RemoveAt(calls, i), calls[i])
    /\ txError' = errorMessage(err, calls[i].bal)
    /\ UNCHANGED <<mode, connState, account, chainBal, balance, showSendModal, recipient,
                   amount, txHash, sending, interval, queries>>

\* ProviderRejects with a catch block that also refreshes the balance
ProviderRejects_Refreshes(i, err) ==
    /\ i \in DOMAIN calls
    /\ calls' = RemoveAt(calls, i)
    /\ txError' = errorMessage(err, calls[i].bal)
    /\ queries' = queries \cup
          {BalanceQuery(calls[i].from, chainBal[calls[i].from], TRUE)}
    /\ UNCHANGED <<mode, connState, account, chainBal, balance, showSendModal, recipient,
                   amount, txHash, sending, interval>>

\* the provider call rejects with err: catch, then finally
ProviderRejects(i, err) ==
    /\ i \in DOMAIN calls
    /\ calls' = RemoveAt(calls, i)
    /\ txError' = errorMessage(err, calls[i].bal)
    /\ sending' = FALSE
    /\ UNCHANGED <<mode, connState, account, chainBal, balance, showSendModal, recipient,
                   amount, txHash, interval, queries>>

-----------------------------------------------------------------------------

Next ==
    \/ \E m \in {"direct", "wallet-standard"} : SelectMode(m)
    \/ GoHome
    \/ Connect
    \/ \E a \in Accounts : ConnectResolves(a)
    \/ ConnectRejects
    \/ Disconnect
    \/ RefreshClick
    \/ IntervalTick
    \/ \E q \in queries : BalanceResolves(q)
    \/ \E q \in queries : BalanceRejects(q)
    \/ OpenSendModal
    \/ \E v \in RecipientInputs : SetRecipient(v)
    \/ \E v \in AmountInputs : SetAmount(v)
    \/ CancelSend
    \/ CloseSuccess
    \/ SubmitRejected
    \/ SubmitAccepted
    \/ \E i \in DOMAIN calls, sig \in Signatures : ProviderResolves(i, sig)
    \/ \E i \in DOMAIN calls, err \in ProviderErrors : ProviderRejects(i, err)

Spec == Init /\ [][Next]_vars

\* every pending signAndSendTransaction / sendTransaction promise and every
\* pending getBalance promise settles
ProviderSettles ==
    \/ \E i \in DOMAIN calls, sig \in Signatures : ProviderResolves(i, sig)
    \/ \E i \in DOMAIN calls, err \in ProviderErrors : ProviderRejects(i, err)
BalanceSettles(q) == BalanceResolves(q) \/ BalanceRejects(q)

\* the getBalance calls there can be: an account's lamports are what it
\* started with less a number of transfers of whole amount steps
PossibleQueries ==
    LET unit == SolToLamports(Num(Step))
        most == InitialLamports[FundedAccount]
    IN  {BalanceQuery(a, k * unit, post) :
            a \in Accounts, k \in 0..(most \div unit), post \in BOOLEAN}

FairSpec ==
    /\ Spec
    /\ WF_vars(ProviderSettles)
    /\ \A q \in PossibleQueries : WF_vars(BalanceSettles(q))

-----------------------------------------------------------------------------
(* The validator on its own: handleSendTransaction applied once to a form   *)
(* filled with any recipient and amount text, over any stored balance, the  *)
(* account identifier present or absent.  The amount texts go beyond what    *)
(* the browser's number input hands to onChange.                            *)

\* the stored balances: unknown, zero, below, at and above the reserve, 1 SOL
ValidatorBalances ==
    {<<>>} \cup {<<parseFloat(s)>> : s \in {"0", "0.0005", "0.001", "0.0015", "1.0"}}

\* the amount texts
ValidatorAmounts ==
    AmountInputs \cup {"abc", "0.0005abc", "0.0041", "0.9995", "1.0000", "1.0005"}

ValidatorInit ==
    /\ mode \in {"direct", "wallet-standard"}
    /\ connState = "connected"
    /\ account \in {<<>>, <<FundedAccount>>}
    /\ balance \in ValidatorBalances
    /\ chainBal = [a \in Accounts |->
                      IF a = FundedAccount /\ balance # <<>>
                      THEN SolToLamports(balance[1]) ELSE InitialLamports[a]]
    /\ showSendModal = TRUE
    /\ recipient \in RecipientInputs
    /\ amount \in ValidatorAmounts
    /\ txHash = <<>>
    /\ txError = ""
    /\ sending = FALSE
    /\ interval = account
    /\ queries = {}
    /\ calls = <<>>

ValidatorNext == SubmitRejected \/ SubmitAccepted

ValidatorSpec == ValidatorInit /\ [][ValidatorNext]_vars

-----------------------------------------------------------------------------
(* The catch block on its own: a provider call in flight for a transfer the  *)
(* validator accepted, rejected with a message put together from the texts   *)
(* the catch block looks for.                                                *)

\* the texts the branches after the signing branches look for
TooLargePattern == "Transaction too large"
ProgramError1Pattern == "custom program error: 0x1"
ProgramError2Pattern == "custom program error: 0x2"
NoPriorCreditPattern == "Attempt to debit an account but found no record of a prior credit"
SimulationFailedPattern == "Transaction simulation failed"

NetworkPatterns ==
    <<SimulationFailedPattern, NoPriorCreditPattern, ProgramError1Pattern,
      ProgramError2Pattern, TooLargePattern>>

\* a message holding the patterns numbered in S, in the order of NetworkPatterns
RECURSIVE NetworkMessage(_, _)
NetworkMessage(S, n) ==
    IF n > Len(NetworkPatterns) THEN ""
    ELSE (IF n \in S THEN ": " \o NetworkPatterns[n] ELSE "") \o NetworkMessage(S, n + 1)

\* how a message the catch block has no branch for begins
NetworkPrefixes == {"RPC error", "failed to fetch", "Blockhash not found"}

\* the rejections: an Error whose message holds any set of the patterns
NetworkErrors ==
    {Error(p \o NetworkMessage(S, 1)) :
        p \in NetworkPrefixes, S \in SUBSET DOMAIN NetworkPatterns}

ClassifierInit ==
    /\ mode \in {"direct", "wallet-standard"}
    /\ connState = "connected"
    /\ account = <<FundedAccount>>
    /\ balance \in ValidatorBalances \ {<<>>}
    /\ chainBal = [a \in Accounts |->
                      IF a = FundedAccount THEN SolToLamports(balance[1])
                      ELSE InitialLamports[a]]
    /\ showSendModal = TRUE
    /\ recipient \in RecipientInputs
    /\ amount \in ValidatorAmounts
    /\ Thrown = <<>>
    /\ txHash = <<>>
    /\ txError = ""
    /\ sending = TRUE
    /\ interval = account
    /\ queries = {}
    /\ calls = <<ProviderCall>>

ClassifierNext == \E err \in NetworkErrors : ProviderRejects(1, err)

ClassifierSpec == ClassifierInit /\ [][ClassifierNext]_vars

-----------------------------------------------------------------------------
(* The claims. *)

\* a step of handleSendTransaction from the submit event to its first await
\* or to its end
SubmitStep == SubmitRejected \/ SubmitAccepted

\* a step that settles the provider call of handleSendTransaction
ResolveStep == \E i \in DOMAIN calls, sig \in Signatures : ProviderResolves(i, sig)
RejectStep == \E i \in DOMAIN calls, err \in ProviderErrors : ProviderRejects(i, err)

\* 0.001 SOL as a fixed-point number and in lamports
ReserveSol == One \div 1000
ReserveLamports == LAMPORTS_PER_SOL \div 1000

\* C1: with a connected wallet, a well-formed recipient, an amount a that is a
\* number and a known balance b, a submit is rejected (no provider call, an
\* error stored, sending false) iff a <= 0 or a > b or a > max(0, b - 0.001),
\* and otherwise reaches the provider call (sending true, no error).
C1_Rejects ==
    LET a == parseFloat(amount).v
        b == balance[1].v
        m == IF b - ReserveSol > 0 THEN b - ReserveSol ELSE 0
    IN  a <= 0 \/ a > b \/ a > m

C2_ProviderAfterValidation ==
    \A i \in DOMAIN calls :
        /\ PublicKeyParses(calls[i].to)
        /\ calls[i].lamports > 0
        /\ calls[i].bal # <<>> =>
              calls[i].lamports <= SolToLamports(calls[i].bal[1]) - ReserveLamports

C2_Witness == \E i \in DOMAIN calls : calls[i].bal # <<>> /\ sending

RefreshPending == \E q \in queries : q.post

\* C4 (as stated): whenever the success state is observable (txHash is set),
\* the balance query issued after the success has completed.
C4_RefreshedBeforeSuccess == txHash # <<>> => ~RefreshPending

\* C4 (amended): the step in which the provider resolves stores the
\* transaction id and issues the balance query, leaving the stored balance as
\* it was; the success state is observable while that query is in flight, and
\* sending stays true until the query has settled.
C4_SuccessThenRefresh ==
    /\ [](RefreshPending => sending)
    /\ [][ ResolveStep =>
              /\ Truthy(txHash')
              /\ balance' = balance
              /\ \E q \in queries' : q.post /\ q.lamports = chainBal'[q.acct] ]_vars

\* the success panel is up, the stored balance is still the one before the transfer
C4_Witness ==
    /\ Truthy(txHash) /\ showSendModal /\ sending
    /\ \E q \in queries : q.post /\ balance # StoredBalance(q)

\* C5: once the wallet is disconnected, the stored balance is unknown and the
\* send form state (dialog flag, recipient, amount, txError, txHash) is cleared.
C5_DisconnectResets ==
    connState = "disconnected" =>
        /\ balance = <<>>
        /\ ~showSendModal
        /\ recipient = "" /\ amount = ""
        /\ txError = "" /\ txHash = <<>>

\* C6: once the balance stored for the connected account is the one the chain
\* holds, the response of a balance query cannot replace it by another value
\* (the chain changes only by this application's transfers, so another value
\* is the balance before a transfer).
C6_NoStaleOverwrite ==
    [][ \A q \in queries :
          ( /\ BalanceResolves(q)
            /\ account = <<q.acct>>
            /\ balance = <<LamportsToSol(chainBal[q.acct])>> )
          => balance' = balance ]_vars

\* C7: at most one provider call is in flight, sending is true while it is,
\* and no step starts a provider call while sending is true.
C7_OneSubmissionInFlight ==
    /\ [](Len(calls) <= 1 /\ (calls # <<>> => sending))
    /\ [][ sending => Len(calls') <= Len(calls) ]_vars

\* the form is on screen, its controls disabled, with the call in flight
C7_Witness == FormShown /\ sending /\ Len(calls) = 1

\* the modal shows the form with its inputs enabled
FormEditable == showSendModal /\ ~Truthy(txHash) /\ ~sending

ErrorKind(text) ==
    IF text \in {"Wallet not connected", "Please reconnect your wallet"} THEN "NotConnected"
    ELSE IF text = InvalidPublicKeyInput.message THEN "InvalidRecipient"
    ELSE IF text = "Invalid amount" THEN "InvalidAmount"
    ELSE IF text = "Insufficient balance" THEN "InsufficientBalance"
    ELSE IF includes(text, "Amount too high.") THEN "BelowReserveThreshold"
    ELSE IF text = CancelledText THEN "SigningRejected"
    ELSE IF text = SigningFailedText THEN "SigningFailed"
    ELSE IF text \in {TooLargeDirectText, TooLargeStandardText} THEN "TransactionTooLarge"
    ELSE IF includes(text, "Insufficient funds.") THEN "InsufficientFundsOnChain"
    ELSE IF text = NotFundedText THEN "AccountNotFunded"
    ELSE IF text = SimulationFailedText THEN "SimulationFailed"
    ELSE "Unknown"

\* the verdict of the pass up to the provider call: accepted, or the category thrown
Verdict(thrown) ==
    IF thrown = <<>> THEN "accepted" ELSE ErrorKind(thrown[1].message)

\* C9: on the same connection state, recipient, amount and stored balance the
\* two handlers reach the same verdict, and on the same provider rejection
\* their catch blocks store an error of the same category.
C9_VariantsAgree ==
    /\ Verdict(AppDirect_thrown(account, connState = "connected", account,
                                recipient, amount, balance))
         = Verdict(AppWalletStandard_thrown(account, connState = "connected",
                                            recipient, amount, balance))
    /\ \A i \in DOMAIN calls, err \in ProviderErrors :
          ErrorKind(AppDirect_errorMessage(err, calls[i].bal))
            = ErrorKind(AppWalletStandard_errorMessage(err, calls[i].bal))

\* C10: when the provider rejects with an Error whose message contains
\* "User rejected", the stored error is "Transaction was cancelled.", no
\* balance query is issued and the stored balance is unchanged.
C10_UserRejectedIsCancelled ==
    [][ \A i \in DOMAIN calls, err \in ProviderErrors :
          ( /\ ProviderRejects(i, err)
            /\ err.isError
            /\ includes(err.message, "User rejected") )
          => /\ txError' = CancelledText
             /\ queries' = queries
             /\ balance' = balance ]_vars

\* the patterns the catch blocks look for in an Error's message
RecognisedPatterns ==
    {"Signing failed", "User rejected", "Transaction too large", "too large",
     "custom program error: 0x1", "custom program error: 0x2",
     "Attempt to debit an account but found no record of a prior credit",
     "Transaction simulation failed"}

Recognised(message) == \E p \in RecognisedPatterns : includes(message, p)

\* C11 (as stated): when the provider rejects with an Error whose message
\* matches none of the recognised patterns, the stored error is the generic
\* "Transaction failed".
C11_UnknownIsGeneric ==
    [][ \A i \in DOMAIN calls, err \in ProviderErrors :
          (ProviderRejects(i, err) /\ err.isError /\ ~Recognised(err.message))
          => txError' = GenericText ]_vars

\* C11 (amended): when the provider rejects with an Error whose message matches
\* none of the recognised patterns, the stored error is that message as it
\* is; the generic "Transaction failed" is stored only when the rejection is
\* not an Error.
C11_UnknownIsRawMessage ==
    [][ \A i \in DOMAIN calls, err \in ProviderErrors :
          (ProviderRejects(i, err) /\ ~Recognised(err.message))
          => txError' = (IF err.isError THEN err.message ELSE GenericText) ]_vars

\* the provider's own text is on display, no call in flight
C11_Witness == txError = "failed to fetch" /\ calls = <<>> /\ ~sending /\ showSendModal

\* the length of the longest prefix of s that is a decimal literal
NumericPrefixLength(s) ==
    LET signed == Len(s) > 0 /\ CharAt(s, 1) \in {"-", "+"}
        body   == IF signed THEN SubSeq(s, 2, Len(s)) ELSE s
        ni     == DigitRun(body)
        rest   == SubSeq(body, ni + 1, Len(body))
        dot    == Len(rest) > 0 /\ CharAt(rest, 1) = "."
        nf     == IF dot THEN DigitRun(SubSeq(rest, 2, Len(rest))) ELSE 0
    IN  IF ni + nf = 0 THEN 0
        ELSE (IF signed THEN 1 ELSE 0) + ni + (IF dot THEN 1 + nf ELSE 0)

\* s, white space aside, is wholly a decimal number, and that number is positive
WhollyPositiveNumber(s) ==
    LET t == trim(s)
    IN  /\ NumericPrefixLength(t) > 0
        /\ NumericPrefixLength(t) = Len(t)
        /\ parseFloat(t).v > 0

C13_InvalidRecipientWins ==
    [][ (SubmitStep /\ account # <<>> /\ ~PublicKeyParses(trim(recipient)))
        => /\ txError' = InvalidPublicKeyInput.message
           /\ ErrorKind(txError') = "InvalidRecipient"
           /\ calls' = calls
           /\ ~sending' ]_vars

\* a malformed recipient rejected although the amount is no number and
\* exceeds no balance
C13_Witness ==
    /\ txError = InvalidPublicKeyInput.message
    /\ ~PublicKeyParses(trim(recipient))
    /\ isNaN(parseFloat(amount))

\* C14: with a known balance b and a valid positive amount a, a > b is
\* rejected with "Insufficient balance", and max(0, b - 0.001) < a <= b is
\* rejected with the amount-too-high text carrying max(0, b - 0.001) to four
\* decimals.
C14_BalanceThenReserve ==
    [][ ( /\ SubmitStep
          /\ account # <<>>
          /\ PublicKeyParses(trim(recipient))
          /\ parseFloat(amount).v > 0
          /\ balance # <<>> )
        => LET a == parseFloat(amount).v
               b == balance[1].v
               m == IF b - ReserveSol > 0 THEN b - ReserveSol ELSE 0
           IN  /\ a > b => txError' = "Insufficient balance"
               /\ (m < a /\ a <= b) =>
                     txError' = "Amount too high. Keep at least 0.001 SOL for rent. Max sendable: "
                                \o toFixed(Num(m)) \o " SOL" ]_vars

\* balance 1.0 SOL, amount 0.9995: max sendable 0.999
C14_Witness ==
    /\ balance = <<Num(One)>>
    /\ amount = "0.9995"
    /\ txError = "Amount too high. Keep at least 0.001 SOL for rent. Max sendable: 0.9990 SOL"

\* C15: the lamports of every transfer instruction built by an accepted
\* submission are an integer, the decimal amount times 10^9.
C15_IntegerLamports == \A i \in DOMAIN calls : calls[i].drift = 0

\* C16: only a submit event invokes the provider, and it invokes it once; a
\* rejected provider call ends the attempt (no call replaces it, sending
\* becomes false), so the next invocation needs another submit event.
C16_NoRetries ==
    [][ /\ Len(calls') > Len(calls) => (SubmitAccepted /\ Len(calls') = Len(calls) + 1)
        /\ RejectStep => (Len(calls') = Len(calls) - 1 /\ ~sending') ]_vars

\* after a failed attempt: the error on display, no provider call in flight
C16_Witness == txError = SigningFailedText /\ calls = <<>> /\ ~sending /\ FormShown

C18_FailedQuerySwallowed ==
    [][ \A q \in queries :
          BalanceRejects(q) =>
             /\ balance' = balance
             /\ txError' = txError
             /\ txHash' = txHash ]_vars

\* the refresh after a successful transfer has failed: the success is still
\* recorded, no error, the balance known and the one before the transfer
C18_Witness ==
    /\ Truthy(txHash) /\ txError = "" /\ ~sending /\ queries = {}
    /\ account # <<>>
    /\ balance # <<>>
    /\ balance # <<LamportsToSol(chainBal[account[1]])>>

\* the balance queries issued by the effect, the interval and the refresh button
TrackerQueries(qs) == {q \in qs : ~q.post}

\* C19: the balance tracker's interval exists exactly while an account is
\* connected, for that account; a balance query is issued in the step in
\* which an account becomes present, and the tracker issues none in a step
\* that ends with no account connected.
C19_TrackerScheduling ==
    /\ [](interval = account)
    /\ [][ /\ (account = <<>> /\ account' # <<>>) =>
                BalanceQuery(account'[1], chainBal[account'[1]], FALSE) \in queries'
           /\ account' = <<>> => TrackerQueries(queries') \subseteq queries ]_vars

\* disconnected in the wallet-standard variant with a query of the previous
\* session still in flight: the interval is gone
C19_Witness ==
    /\ mode = "wallet-standard" /\ connState = "disconnected"
    /\ interval = <<>> /\ queries # {}

\* the balance queries awaited by handleSendTransaction
PostQueries(qs) == {q \in qs : q.post}

\* C20: a successful submission issues exactly one balance query from the
\* handler, in the step that records the transaction id; a failed one (a
\* throw before the provider call, a provider rejection) issues none.
C20_OneRefreshOnSuccess ==
    /\ [](Cardinality(PostQueries(queries)) <= 1)
    /\ [][ /\ ResolveStep =>
                /\ Truthy(txHash')
                /\ Cardinality(queries' \ queries) = 1
                /\ PostQueries(queries') = queries' \ queries
           /\ (SubmitRejected \/ RejectStep) => queries' = queries ]_vars

\* the handler's refresh is the only query in flight
C20_Witness == Truthy(txHash) /\ \E q \in queries : q.post /\ queries = {q}

\* C21: a submission with no active account (the account identifier absent,
\* or the provider reporting not connected, or in AppDirect the wallet object
\* absent) ends with an error of the not-connected category whatever the
\* recipient, the amount and the stored balance are, and the step that runs it
\* leaves the provider uncalled and sending false.
C21_NotConnectedFirst ==
    /\ [](\A pk \in {<<>>, <<FundedAccount>>}, w \in {<<>>, <<FundedAccount>>},
              conn \in BOOLEAN :
            /\ (pk = <<>> \/ ~conn \/ w = <<>>)
                 => Verdict(AppDirect_thrown(pk, conn, w, recipient, amount, balance))
                      = "NotConnected"
            /\ (pk = <<>> \/ ~conn)
                 => Verdict(AppWalletStandard_thrown(pk, conn, recipient, amount, balance))
                      = "NotConnected")
    /\ [][ (SubmitStep /\ account = <<>>)
            => /\ ErrorKind(txError') = "NotConnected"
               /\ calls' = calls
               /\ ~sending' ]_vars

\* a not-connected error stored over a form whose recipient does not parse
C21_Witness ==
    /\ account = <<>>
    /\ mode = "wallet-standard"
    /\ txError = "Wallet not connected"
    /\ ~PublicKeyParses(trim(recipient))
    /\ calls = <<>>

\* C22: showSendModal turns true only in a step taken on the dashboard with
\* the account identifier present and the stored balance known and not 0;
\* while the stored balance is unknown or 0 the Send control cannot be used.
C22_SendNeedsBalance ==
    /\ [][ (~showSendModal /\ showSendModal')
            => /\ DashboardShown
               /\ account # <<>>
               /\ balance # <<>>
               /\ balance[1] # Num(0) ]_vars
    /\ []((balance = <<>> \/ balance[1] = Num(0)) => ~ENABLED OpenSendModal)

\* the dialog opened over a known balance above 0
C22_Witness ==
    /\ FormShown
    /\ account = <<FundedAccount>>
    /\ balance # <<>> /\ Gt(balance[1], Num(0))
    /\ recipient = "" /\ amount = "" /\ txError = ""

\* C23: whenever showSendModal is true the stored balance is known, and every
\* run of handleSendTransaction started from the form finds a known balance.
C23_OpenDialogKnowsBalance ==
    /\ [](showSendModal => balance # <<>>)
    /\ [][SubmitStep => balance # <<>>]_vars

\* AppWalletStandard disconnected with the dialog left open over a failed
\* submission: the balance stored before the disconnect is still there
C23_Witness ==
    /\ mode = "wallet-standard"
    /\ connState = "disconnected"
    /\ showSendModal
    /\ txError # ""
    /\ balance # <<>>

\* C24: the response of a balance query is stored only while the account it
\* was issued for is the connected one, and the balance a submission is
\* validated against is one the submitting account has held (between what it
\* holds now and what it held at the start: transfers only lower it).
C24_BalanceOfConnectedAccount ==
    /\ [][ \A q \in queries : BalanceResolves(q) => account = <<q.acct>> ]_vars
    /\ [][ SubmitStep
            => /\ account # <<>> /\ balance # <<>>
               /\ SolToLamports(balance[1]) >= chainBal[account[1]]
               /\ SolToLamports(balance[1]) <= InitialLamports[account[1]] ]_vars

\* C25: with every provider call and every balance query settling, sending
\* never stays true for ever; after a successful transfer sending stays true
\* as long as the refresh awaited by the handler is pending.
C25_SendingReleased ==
    /\ sending ~> ~sending
    /\ []((\E q \in queries : q.post) => sending)

\* the success panel on screen, the provider call settled, sending still true
C25_Witness ==
    /\ DashboardShown /\ showSendModal
    /\ Truthy(txHash)
    /\ calls = <<>>
    /\ \E q \in queries : q.post
    /\ sending

\* C26: in both implementations a rejection whose message holds none of the
\* signing texts is classified by the first of these that its message
\* contains: "too large", then "custom program error: 0x1" or "0x2", then the
\* no-prior-credit text, then "Transaction simulation failed"; so a
\* simulation failure that embeds a 0x1 or 0x2 program error is stored as
\* insufficient funds on chain.
C26_NetworkPrecedence ==
    [][ \A err \in NetworkErrors :
          ProviderRejects(1, err)
          => LET m == err.message
                 kind == IF includes(m, "too large") THEN "TransactionTooLarge"
                         ELSE IF includes(m, ProgramError1Pattern)
                                 \/ includes(m, ProgramError2Pattern)
                              THEN "InsufficientFundsOnChain"
                         ELSE IF includes(m, NoPriorCreditPattern) THEN "AccountNotFunded"
                         ELSE IF includes(m, SimulationFailedPattern) THEN "SimulationFailed"
                         ELSE "Unknown"
             IN  /\ ErrorKind(txError') = kind
                 /\ ( /\ includes(m, SimulationFailedPattern)
                      /\ includes(m, ProgramError1Pattern) \/ includes(m, ProgramError2Pattern)
                      /\ ~includes(m, "too large") )
                    => ErrorKind(txError') = "InsufficientFundsOnChain" ]_vars

\* a rejection stored as insufficient funds on chain, the form back in use
C26_Witness ==
    /\ ErrorKind(txError) = "InsufficientFundsOnChain"
    /\ txError = InsufficientFundsText(balance)
    /\ calls = <<>> /\ ~sending
    /\ FormShown

\* C27: mode starts at 'select'; it changes only from 'select' to one of the
\* two implementations and from an implementation back to 'select', the
\* latter only in a step taken on the connected dashboard; on the connect,
\* welcome and connecting screens the way back is not offered.
C27_ModeMachine ==
    /\ mode = "select"
    /\ [][ mode' # mode
            => \/ mode = "select" /\ mode' \in {"direct", "wallet-standard"}
               \/ /\ mode \in {"direct", "wallet-standard"}
                  /\ mode' = "select"
                  /\ connState = "connected" ]_vars
    /\ []((mode # "select" /\ connState # "connected") => ~ENABLED GoHome)

\* back on the landing page after a transfer made in an implementation
C27_Witness ==
    /\ mode = "select"
    /\ chainBal[FundedAccount] < InitialLamports[FundedAccount]

====
